---------------------------- MODULE Spec2Model ----------------------------
(***************************************************************************)
(* The future box (firmware/kernel/src/future_box.rs) and the non-blocking *)
(* SPIM driver built on it (firmware/kernel/src/drivers/                   *)
(* nrf52_spim_nonblocking.rs).                                             *)
(*                                                                         *)
(* Three specifications share the definitions:                             *)
(*   SpecFB      one control block, several threads running try_upgrade,   *)
(*               the releases and the drops one atomic access at a time;   *)
(*   Spec        the driver: its handlers run to completion (single        *)
(*               writer), the DMA engine and the handle owners run         *)
(*               between them;                                             *)
(*   SpecLoaded  the driver again, started with both of its queues full.   *)
(***************************************************************************)
EXTENDS Integers, Sequences, FiniteSets, TLC

(* ------------------------------ bounds -------------------------------- *)
\* control blocks the heap has room for when a behaviour starts
MaxAllocs == 2
\* threads that use handles concurrently
NThreads == 2
\* longest transmit buffer
MaxLen == 2
\* Pending Handles of one awaited tag the owners hold for one block
MaxPend == 2
\* the reference count up to which try_upgrade is still called
MaxRefs == 4
\* chip-select pins the driver is configured with
NumPins == 2
\* control blocks the heap has room for when the loaded driver starts
LoadedAllocs == 1

(* ------------------------ program constants --------------------------- *)
KERNEL_ACCESS == 0
USERSPACE_ACCESS == 1
COMPLETED == 2
ERROR == 3
INVALID == 4
\* the capacity of Spim::vdq and of Spim::waiting
VdqCap == 8
WaitingCap == 8
\* the lowest clock change_speed accepts, in kHz
MinSpeedKhz == 125

Tags == {KERNEL_ACCESS, USERSPACE_ACCESS, COMPLETED, ERROR, INVALID}
AccessTags == {KERNEL_ACCESS, USERSPACE_ACCESS}

Threads == 1..NThreads

VARIABLES
  fb,       \* fb[b]: the control block b (FutureBox): alloc, status, refcnt, ex_taken, payload
  heap,     \* heap[b]: how often the payload and the control block of b were freed
  uex,      \* uex[b]: Exclusive Handles of b owned outside the driver
  upend,    \* upend[b][tag]: Pending Handles of b awaiting tag owned outside the driver
  thr,      \* thr[t]: the future-box call thread t is inside, and its locals
  fault,    \* the program has stopped (panic, or a fault after a double free)
  log,      \* log[b]: the last release of b, and the try_upgrade calls since
  tx,       \* tx[b]: the SendTransaction in the payload of b: csn, speed_khz, len
  vdq,      \* Spim::vdq, the in-flight queue: InProgress entries [data, start_offset]
  waiting,  \* Spim::waiting, the pending queue: Pending Handles [fb, awaiting]
  state,    \* Spim::state
  csns,     \* csns[i]: the level of chip-select pin i (FALSE is active)
  spi,      \* the SPIM3 peripheral: DMA registers and event flags
  call,     \* the driver call made last: its name, arguments and result
  budget,   \* the control blocks the heap still has room for
  hist      \* the transactions send accepted, and those end_send found fully sent

\* the control blocks allocated so far
Blocks == DOMAIN fb

fbvars == <<fb, heap, uex, upend, thr, fault, log>>
drvvars == <<tx, vdq, waiting, state, csns, spi, call, budget, hist>>
vars == <<fb, heap, uex, upend, thr, fault, log, tx, vdq, waiting, state, csns, spi, call, budget, hist>>

(* ------------------------- the control block -------------------------- *)
\* Source::Kernel / Source::Userspace: the status a new block starts in
SourceTag(src) == IF src = "Kernel" THEN KERNEL_ACCESS ELSE USERSPACE_ACCESS

\* FutureBoxExHdl::new_exclusive: refcnt 1, exclusive taken, status of the origin
new_exclusive(src) == [alloc |-> "live", status |-> SourceTag(src), refcnt |-> 1,
                       ex_taken |-> TRUE, payload |-> TRUE]

\* AtomicU8::fetch_add(1) / fetch_sub(1): wrapping
U8Add(n) == (n + 1) % 256
U8Sub(n) == (n + 255) % 256

\* create_monitor / kernel_waiter: one more reference, exclusivity untouched
AddRef(f) == [f EXCEPT !.refcnt = U8Add(@)]

NoHeap == [pfrees |-> 0, fbfrees |-> 0]

\* HeapBox::from_leaked(ptr) dropped at once: the allocation is freed (again); the
\* counts stop at 2, freed more than once
FreePayload(h) == [h EXCEPT !.pfrees = IF @ < 2 THEN @ + 1 ELSE @]
FreeBox(h) == [h EXCEPT !.fbfrees = IF @ < 2 THEN @ + 1 ELSE @]


\* the atomic accesses of the control block
StoreStatus(f, s) == [f EXCEPT !.status = s]
StoreExTaken(f, v) == [f EXCEPT !.ex_taken = v]
\* a release that leaves the payload pointer in the block
StorePayloadNull_skip(f) == f

StorePayloadNull(f) == [f EXCEPT !.payload = FALSE]
FetchAdd(f) == [f EXCEPT !.refcnt = U8Add(@)]
FetchSub(f) == [f EXCEPT !.refcnt = U8Sub(@)]

\* a release that leaves ex_taken as it is
release_flag_kept(f) == f

\* what every release does last with the block: ex_taken.store(false)
release_flag(f) == StoreExTaken(f, FALSE)

\* an arm selection without the ERROR arm
TuArm_noerr(rd, aw) == IF rd = aw THEN "tu_payload" ELSE "tu_none"

\* an arm selection that hands out the payload on every status but ERROR
TuArm_any(rd, aw) == IF rd = ERROR THEN "tu_err" ELSE "tu_payload"

\* a monitor that awaits the domain that released the block
convert_to_monitor_home(tag) == IF tag = KERNEL_ACCESS THEN USERSPACE_ACCESS ELSE KERNEL_ACCESS

\* convert_to_monitor, line 98: the status the Pending Handle of a release to domain
\* tag awaits
convert_to_monitor(tag) == INVALID

\* try_upgrade after the compare_exchange succeeded: the arm the loaded status selects
TuArm(rd, aw) == IF rd = ERROR THEN "tu_err"
                 ELSE IF rd = aw THEN "tu_payload"
                 ELSE "tu_none"

\* Drop for FutureBoxExHdl: drop_fb, computed from the count fetch_sub returned
DropFb(pre_refs) == pre_refs <= 1

(* ------------------- handle calls, one access a step ------------------ *)
\* the record of a block's releases and upgrades: rel is the kind of the release that
\* cleared ex_taken last, tried says that a try_upgrade call which took ex_taken has
\* returned without a handle since, ups counts the handles try_upgrade built since.
\* trip follows the Pending Handle a release_to_kernel / release_to_userspace returned:
\* "out" once domain home has released the block to the other domain, "taken" once the
\* other domain has upgraded, "back" once it has released the block to home again
NoLog == [rel |-> "none", tried |-> FALSE, ups |-> 0, trip |-> "none", home |-> INVALID]
LogReleased(kind) == [NoLog EXCEPT !.rel = kind]
LogTried(l) == [l EXCEPT !.tried = TRUE]
LogUpgraded(l) == [l EXCEPT !.ups = IF @ < 2 THEN @ + 1 ELSE @,
                            !.trip = IF @ = "out" THEN "taken" ELSE "none",
                            !.home = IF l.trip = "out" THEN @ ELSE INVALID]

\* the two domains
OtherDomain(tag) == IF tag = KERNEL_ACCESS THEN USERSPACE_ACCESS ELSE KERNEL_ACCESS

\* a release to domain tag has returned its Pending Handle
LogHandedOver(l, tag) ==
  IF l.trip = "taken" /\ l.home = tag
    THEN [LogReleased("access") EXCEPT !.trip = "back", !.home = tag]
    ELSE [LogReleased("access") EXCEPT !.trip = "out", !.home = OtherDomain(tag)]

\* a Pending Handle awaiting aw is dropped: the handle the trip follows may be gone
LogDropped(l, aw) == IF aw = INVALID THEN [l EXCEPT !.trip = "none", !.home = INVALID]
                     ELSE l

Idle(t) == thr[t].pc = "idle"
NoCall == [pc |-> "idle", b |-> 0, aw |-> INVALID, rd |-> 0]

\* the threads inside a call on block b that own an Exclusive Handle of it:
\* try_upgrade once it built the handle, a release or a drop until it is over
ExPcs == {"tu_inc", "rel_flag", "rte_free", "rte_null", "rte_flag", "drop_sub",
          "drop_status", "drop_free", "drop_null", "drop_flag", "drop_last"}
ExInCall(b) == {t \in Threads : thr[t].b = b /\ thr[t].pc \in ExPcs}

\* freeing a payload that was freed before is a double free: the build may go on or stop
FreeOutcome(h) == IF h.pfrees > 0 THEN {FALSE, TRUE} ELSE {FALSE}

\* a compare_exchange that is a plain store of true
CasOk_blind(f) == TRUE

\* compare_exchange(false, true) on ex_taken succeeds when the flag is clear
CasOk(f) == ~f.ex_taken

\* try_upgrade, line 183: compare_exchange(false, true) on ex_taken
TuCas(t, b, aw) ==
  /\ ~fault /\ Idle(t)
  /\ upend[b][aw] > 0 /\ fb[b].alloc = "live" /\ fb[b].refcnt < MaxRefs
  /\ IF ~CasOk(fb[b])
       THEN /\ thr' = thr
            /\ fb' = fb
       ELSE /\ thr' = [thr EXCEPT ![t] = [pc |-> "tu_load", b |-> b, aw |-> aw, rd |-> 0]]
            /\ fb' = [fb EXCEPT ![b] = StoreExTaken(@, TRUE)]
  /\ UNCHANGED <<heap, uex, upend, fault, log>>
  /\ UNCHANGED drvvars

\* line 187: load the status and pick the arm
TuLoad(t) ==
  /\ ~fault /\ thr[t].pc = "tu_load"
  /\ LET rd == fb[thr[t].b].status
     IN thr' = [thr EXCEPT ![t].rd = rd, ![t].pc = TuArm(rd, thr[t].aw)]
  /\ UNCHANGED <<fb, heap, uex, upend, fault, log>>
  /\ UNCHANGED drvvars

\* lines 188-192: the status is ERROR
TuErr(t) ==
  /\ ~fault /\ thr[t].pc = "tu_err"
  /\ fb' = [fb EXCEPT ![thr[t].b] = StoreExTaken(@, FALSE)]
  /\ thr' = [thr EXCEPT ![t] = NoCall]
  /\ UNCHANGED <<heap, uex, upend, fault>>
  /\ log' = [log EXCEPT ![thr[t].b] = LogTried(@)]
  /\ UNCHANGED drvvars

\* lines 202-206: another status
TuNone(t) ==
  /\ ~fault /\ thr[t].pc = "tu_none"
  /\ fb' = [fb EXCEPT ![thr[t].b] = StoreExTaken(@, FALSE)]
  /\ thr' = [thr EXCEPT ![t] = NoCall]
  /\ UNCHANGED <<heap, uex, upend, fault>>
  /\ log' = [log EXCEPT ![thr[t].b] = LogTried(@)]
  /\ UNCHANGED drvvars

\* lines 195-198: the awaited status; the handle is built around the loaded payload
TuPayload(t) ==
  /\ ~fault /\ thr[t].pc = "tu_payload"
  /\ thr' = [thr EXCEPT ![t].pc = "tu_inc"]
  /\ UNCHANGED <<fb, heap, uex, upend, fault>>
  /\ log' = [log EXCEPT ![thr[t].b] = LogUpgraded(@)]
  /\ UNCHANGED drvvars

\* lines 199-200: count the handle and return it
TuInc(t) ==
  /\ ~fault /\ thr[t].pc = "tu_inc"
  /\ fb' = [fb EXCEPT ![thr[t].b] = FetchAdd(@)]
  /\ uex' = [uex EXCEPT ![thr[t].b] = @ + 1]
  /\ thr' = [thr EXCEPT ![t] = NoCall]
  /\ UNCHANGED <<heap, upend, fault, log>>
  /\ UNCHANGED drvvars


\* release_to_userspace / release_to_kernel, lines 108 and 117: store the status
RelStore(t, b, tag) ==
  /\ ~fault /\ Idle(t)
  /\ uex[b] > 0 /\ upend[b][convert_to_monitor(tag)] < MaxPend
  /\ uex' = [uex EXCEPT ![b] = @ - 1]
  /\ fb' = [fb EXCEPT ![b] = StoreStatus(@, tag)]
  /\ thr' = [thr EXCEPT ![t] = [pc |-> "rel_flag", b |-> b,
                                aw |-> convert_to_monitor(tag), rd |-> tag]]
  /\ UNCHANGED <<heap, upend, fault, log>>
  /\ UNCHANGED drvvars

\* lines 109-111 and 118-120: clear ex_taken, then convert_to_monitor
RelFlag(t) ==
  /\ ~fault /\ thr[t].pc = "rel_flag"
  /\ fb' = [fb EXCEPT ![thr[t].b] = release_flag(@)]
  /\ upend' = [upend EXCEPT ![thr[t].b][thr[t].aw] = @ + 1]
  /\ thr' = [thr EXCEPT ![t] = NoCall]
  /\ UNCHANGED <<heap, uex, fault>>
  /\ log' = [log EXCEPT ![thr[t].b] = LogHandedOver(@, thr[t].rd)]
  /\ UNCHANGED drvvars

\* the status release_to_error and release_to_complete store, lines 125 and 135
TerminalStatus(kind) == ERROR

\* release_to_error / release_to_complete, lines 125 and 135: store the status
RteStore(t, b, kind) ==
  /\ ~fault /\ Idle(t)
  /\ uex[b] > 0
  /\ uex' = [uex EXCEPT ![b] = @ - 1]
  /\ fb' = [fb EXCEPT ![b] = StoreStatus(@, TerminalStatus(kind))]
  /\ thr' = [thr EXCEPT ![t] = [pc |-> "rte_free", b |-> b, aw |-> INVALID, rd |-> 0]]
  /\ UNCHANGED <<heap, upend, fault, log>>
  /\ UNCHANGED drvvars

\* lines 127 and 137: free the payload
RteFree(t) ==
  /\ ~fault /\ thr[t].pc = "rte_free"
  /\ fault' \in FreeOutcome(heap[thr[t].b])
  /\ heap' = [heap EXCEPT ![thr[t].b] = FreePayload(@)]
  /\ thr' = [thr EXCEPT ![t].pc = "rte_null"]
  /\ UNCHANGED <<fb, uex, upend, log>>
  /\ UNCHANGED drvvars

\* lines 128 and 138: null the payload pointer of the block
RteNull(t) ==
  /\ ~fault /\ thr[t].pc = "rte_null"
  /\ fb' = [fb EXCEPT ![thr[t].b] = StorePayloadNull(@)]
  /\ thr' = [thr EXCEPT ![t].pc = "rte_flag"]
  /\ UNCHANGED <<heap, uex, upend, fault, log>>
  /\ UNCHANGED drvvars

\* lines 130 and 140: clear ex_taken; self goes out of scope next, so its Drop runs
RteFlag(t) ==
  /\ ~fault /\ thr[t].pc = "rte_flag"
  /\ fb' = [fb EXCEPT ![thr[t].b] = release_flag(@)]
  /\ thr' = [thr EXCEPT ![t].pc = "drop_sub"]
  /\ UNCHANGED <<heap, uex, upend, fault>>
  /\ log' = [log EXCEPT ![thr[t].b] = LogReleased("terminal")]
  /\ UNCHANGED drvvars

\* an owner drops its Exclusive Handle: Drop::drop is entered
DropCall(t, b) ==
  /\ ~fault /\ Idle(t)
  /\ uex[b] > 0
  /\ uex' = [uex EXCEPT ![b] = @ - 1]
  /\ thr' = [thr EXCEPT ![t] = [pc |-> "drop_sub", b |-> b, aw |-> INVALID, rd |-> 0]]
  /\ UNCHANGED <<fb, heap, upend, fault, log>>
  /\ UNCHANGED drvvars

\* Drop, line 54: pre_refs = refcnt.fetch_sub(1)
DropSub(t) ==
  /\ ~fault /\ thr[t].pc = "drop_sub"
  /\ thr' = [thr EXCEPT ![t].pc = "drop_status", ![t].rd = fb[thr[t].b].refcnt]
  /\ fb' = [fb EXCEPT ![thr[t].b] = FetchSub(@)]
  /\ UNCHANGED <<heap, uex, upend, fault, log>>
  /\ UNCHANGED drvvars

\* line 59: the status becomes ERROR
DropStatus(t) ==
  /\ ~fault /\ thr[t].pc = "drop_status"
  /\ fb' = [fb EXCEPT ![thr[t].b] = StoreStatus(@, ERROR)]
  /\ thr' = [thr EXCEPT ![t].pc = "drop_free"]
  /\ UNCHANGED <<heap, uex, upend, fault, log>>
  /\ UNCHANGED drvvars

\* line 61: free the payload
DropFree(t) ==
  /\ ~fault /\ thr[t].pc = "drop_free"
  /\ fault' \in FreeOutcome(heap[thr[t].b])
  /\ heap' = [heap EXCEPT ![thr[t].b] = FreePayload(@)]
  /\ thr' = [thr EXCEPT ![t].pc = "drop_null"]
  /\ UNCHANGED <<fb, uex, upend, log>>
  /\ UNCHANGED drvvars

\* line 62: null the payload pointer of the block
DropNull(t) ==
  /\ ~fault /\ thr[t].pc = "drop_null"
  /\ fb' = [fb EXCEPT ![thr[t].b] = StorePayloadNull(@)]
  /\ thr' = [thr EXCEPT ![t].pc = "drop_flag"]
  /\ UNCHANGED <<heap, uex, upend, fault, log>>
  /\ UNCHANGED drvvars

\* lines 65-68: clear ex_taken; the last handle goes on to free the block
DropFlag(t) ==
  /\ ~fault /\ thr[t].pc = "drop_flag"
  /\ fb' = [fb EXCEPT ![thr[t].b] = StoreExTaken(@, FALSE)]
  /\ thr' = [thr EXCEPT ![t] = IF DropFb(thr[t].rd) THEN [@ EXCEPT !.pc = "drop_last"]
                                     ELSE NoCall]
  /\ UNCHANGED <<heap, uex, upend, fault, log>>
  /\ UNCHANGED drvvars

\* lines 73-79: the handle's own payload pointer is never null, so the payload is
\* freed once more, and then the control block
DropLast(t) ==
  /\ ~fault /\ thr[t].pc = "drop_last"
  /\ fault' \in FreeOutcome(heap[thr[t].b])
  /\ heap' = [heap EXCEPT ![thr[t].b] = FreeBox(FreePayload(@))]
  /\ fb' = [fb EXCEPT ![thr[t].b].alloc = "freed"]
  /\ thr' = [thr EXCEPT ![t] = NoCall]
  /\ UNCHANGED <<uex, upend, log>>
  /\ UNCHANGED drvvars

\* an owner drops a Pending Handle: the type has no Drop, nothing is written
DropPend(b, aw) ==
  /\ ~fault
  /\ upend[b][aw] > 0
  /\ upend' = [upend EXCEPT ![b][aw] = @ - 1]
  /\ log' = [log EXCEPT ![b] = LogDropped(@, aw)]
  /\ UNCHANGED <<fb, heap, uex, thr, fault>>
  /\ UNCHANGED drvvars

(* ------------------- the constructors of the handles ------------------ *)
\* the payload of a control block that holds no transaction
NoTx == [csn |-> 0, speed_khz |-> 0, len |-> 0]

\* the slot the next control block is allocated in
NextBox == Len(fb) + 1

\* a control block f holding transaction t is allocated; its owner gets n Exclusive Handles
Allocated(f, t, n) ==
  /\ fb' = Append(fb, f)
  /\ tx' = Append(tx, t)
  /\ uex' = Append(uex, n)
  /\ heap' = Append(heap, NoHeap)
  /\ upend' = Append(upend, [a \in Tags |-> 0])
  /\ log' = Append(log, NoLog)

\* FutureBoxExHdl::new_exclusive by an owner outside the driver: the one control block
\* the future-box specification follows
NewExclusive(src) ==
  /\ ~fault
  /\ NextBox = 1
  /\ Allocated(new_exclusive(src), NoTx, 1)
  /\ UNCHANGED <<thr, fault, vdq, waiting, state, csns, spi, call, budget, hist>>

\* FutureBoxExHdl::create_monitor: a Pending Handle that awaits INVALID
CreateMonitor(b) ==
  /\ ~fault
  /\ uex[b] > 0 /\ upend[b][INVALID] < MaxPend
  /\ fb' = [fb EXCEPT ![b] = AddRef(@)]
  /\ upend' = [upend EXCEPT ![b][INVALID] = @ + 1]
  /\ UNCHANGED <<heap, uex, thr, fault, log>>
  /\ UNCHANGED drvvars

\* FutureBoxExHdl::kernel_waiter: a Pending Handle that awaits KERNEL_ACCESS
KernelWaiter(b) ==
  /\ ~fault
  /\ uex[b] > 0 /\ upend[b][KERNEL_ACCESS] < MaxPend
  /\ fb' = [fb EXCEPT ![b] = AddRef(@)]
  /\ upend' = [upend EXCEPT ![b][KERNEL_ACCESS] = @ + 1]
  /\ UNCHANGED <<heap, uex, thr, fault, log>>
  /\ UNCHANGED drvvars

(* --------------- the handle calls, run from start to end --------------- *)
\* FutureBoxPendHdl::try_upgrade on block f by a handle awaiting aw: the result and the
\* block after the call
try_upgrade(f, aw) ==
  IF ~CasOk(f) THEN [res |-> "None", f |-> f]
  ELSE LET g == StoreExTaken(f, TRUE)
           arm == TuArm(g.status, aw)
       IN CASE arm = "tu_err" ->
                 [res |-> "Err", f |-> StoreExTaken(g, FALSE)]
            [] arm = "tu_payload" ->
                 [res |-> "Some", f |-> FetchAdd(g)]
            [] OTHER ->
                 [res |-> "None", f |-> StoreExTaken(g, FALSE)]

\* FutureBoxPendHdl::is_complete
is_complete(f) == CASE f.status = COMPLETED -> "Ok(true)"
                    [] f.status = ERROR -> "Err"
                    [] OTHER -> "Ok(false)"

\* release_to_userspace / release_to_kernel
release_to(f, tag) == release_flag(StoreStatus(f, tag))

\* Drop for FutureBoxExHdl on block f with heap record h: the ways it can end, each
\* with the block, the heap record and whether the program stopped in a double free
DropSeq(f, h) ==
  LET pre_refs == f.refcnt
      f1 == StoreStatus(FetchSub(f), ERROR)
      h1 == FreePayload(h)
      f2 == StoreExTaken(StorePayloadNull(f1), FALSE)
      last == DropFb(pre_refs)
  IN  {[f |-> IF last THEN [f2 EXCEPT !.alloc = "freed"] ELSE f2,
        h |-> IF last THEN FreeBox(FreePayload(h1)) ELSE h1,
        fault |-> FALSE]}
      \cup (IF TRUE \in FreeOutcome(h) THEN {[f |-> f1, h |-> h1, fault |-> TRUE]} ELSE {})
      \cup (IF last THEN {[f |-> f2, h |-> FreePayload(h1), fault |-> TRUE]} ELSE {})

\* release_to_error / release_to_complete, with the Drop of self that ends them
ReleaseTerminalSeq(f, h, kind) ==
  LET f0 == StoreStatus(f, TerminalStatus(kind))
      h1 == FreePayload(h)
      f1 == release_flag(StorePayloadNull(f0))
  IN  (IF TRUE \in FreeOutcome(h) THEN {[f |-> f0, h |-> h1, fault |-> TRUE]} ELSE {})
      \cup DropSeq(f1, h1)

(* ------------------------------ the driver ---------------------------- *)
Pins == 0..(NumPins - 1)
NoDrvCall == [op |-> "-", b |-> 0, res |-> "-", started |-> FALSE, tx_len |-> 0]
SpimReset == [busy |-> FALSE, maxcnt |-> 0, amount |-> 0,
              events_end |-> FALSE, events_stopped |-> FALSE, freq |-> "-"]

\* a change_speed that refuses the lowest supported clock as well
change_speed_strict(freq_khz) ==
  IF freq_khz <= MinSpeedKhz THEN "Err" ELSE "K125"

\* SpimInner::change_speed: the frequency step of a clock in kHz, "Err" below the lowest
change_speed(freq_khz) ==
  CASE freq_khz < MinSpeedKhz -> "Err"
    [] freq_khz \in MinSpeedKhz..249 -> "K125"
    [] freq_khz \in 250..499 -> "K250"
    [] freq_khz \in 500..999 -> "K500"
    [] freq_khz \in 1000..1999 -> "M1"
    [] freq_khz \in 2000..3999 -> "M2"
    [] freq_khz \in 4000..7999 -> "M4"
    [] freq_khz \in 8000..15999 -> "M8"
    [] freq_khz \in 16000..31999 -> "M16"
    [] OTHER -> "M32"

\* SpimInner::clear_events: both event flags are reset
clear_events(p) == [p EXCEPT !.events_end = FALSE, !.events_stopped = FALSE]

\* SpimInner::do_spi_dma_transfer_start: TXD.MAXCNT is programmed and the start task set
do_spi_dma_transfer_start(p, len) == [p EXCEPT !.busy = TRUE, !.maxcnt = len]

\* SpimInner::do_spi_dma_transfer_end: NotDone when neither event flag is set
DmaNotDone(p) == ~(p.events_end \/ p.events_stopped)

\* a fullness test that is one entry late
IsFull_late(q, cap) == Len(q) > cap

\* a fullness test that never reports a full queue
IsFull_never(q, cap) == FALSE

\* heapless Deque::is_full
IsFull(q, cap) == Len(q) >= cap

\* a chip-select test that lets the first index past the pins through
CsnExists_incl(csn) == csn <= NumPins

\* Spim::send, line 103: does this CS exist?
CsnExists(csn) == csn < NumPins

\* the driver and what its handlers reach, as one record; res and started say how the
\* running handler ended and whether it issued a DMA start
Machine == [fb |-> fb, heap |-> heap, uex |-> uex, upend |-> upend,
            vdq |-> vdq, waiting |-> waiting, state |-> state, csns |-> csns,
            spi |-> spi, fault |-> fault, hist |-> hist,
            res |-> "-", started |-> FALSE, tx_len |-> 0, wip |-> 0]

\* a flush that puts an entry that is not ready at the back of the pending queue
RECURSIVE flush_waiting_requeue(_)
flush_waiting_requeue(m) ==
  IF IsFull(m.vdq, VdqCap) \/ m.waiting = <<>> THEN m
  ELSE LET pend == Head(m.waiting)
           r == try_upgrade(m.fb[pend.fb], pend.awaiting)
           m1 == [m EXCEPT !.waiting = Tail(@), !.fb[pend.fb] = r.f]
       IN CASE r.res = "Some" ->
                 flush_waiting_requeue([m1 EXCEPT !.vdq = Append(@, [data |-> pend.fb,
                                                                     start_offset |-> 0])])
            [] r.res = "None" -> [m1 EXCEPT !.waiting = @ \o <<pend>>]
            [] OTHER -> flush_waiting_requeue(m1)

\* a flush that stops at an errored entry
RECURSIVE flush_waiting_halt(_)
flush_waiting_halt(m) ==
  IF IsFull(m.vdq, VdqCap) \/ m.waiting = <<>> THEN m
  ELSE LET pend == Head(m.waiting)
           r == try_upgrade(m.fb[pend.fb], pend.awaiting)
           m1 == [m EXCEPT !.waiting = Tail(@), !.fb[pend.fb] = r.f]
       IN CASE r.res = "Some" ->
                 flush_waiting_halt([m1 EXCEPT !.vdq = Append(@, [data |-> pend.fb,
                                                                  start_offset |-> 0])])
            [] r.res = "None" -> [m1 EXCEPT !.waiting = <<pend>> \o @]
            [] OTHER -> m1

\* Spim::flush_waiting
RECURSIVE flush_waiting(_)
flush_waiting(m) ==
  IF IsFull(m.vdq, VdqCap) \/ m.waiting = <<>> THEN m
  ELSE LET pend == Head(m.waiting)
           r == try_upgrade(m.fb[pend.fb], pend.awaiting)
           m1 == [m EXCEPT !.waiting = Tail(@), !.fb[pend.fb] = r.f]
       IN CASE r.res = "Some" ->
                 flush_waiting([m1 EXCEPT !.vdq = Append(@, [data |-> pend.fb,
                                                             start_offset |-> 0])])
            [] r.res = "None" -> [m1 EXCEPT !.waiting = <<pend>> \o @]
            [] OTHER -> flush_waiting(m1)

\* an InProgress entry goes out of scope: its Exclusive Handle is dropped
DropEntry(m, b) ==
  {[m EXCEPT !.fb[b] = o.f, !.heap[b] = o.h, !.fault = o.fault] :
     o \in DropSeq(m.fb[b], m.heap[b])}

\* a start_send that does not look at the state
start_send_anyway(m) ==
  LET m1 == flush_waiting(m)
  IN IF m1.vdq = <<>> THEN {m1}
     ELSE LET data == Head(m1.vdq)
              b == data.data
              m2 == [m1 EXCEPT !.vdq = Tail(@)]
          IN IF ~(tx[b].len > data.start_offset) THEN DropEntry(m2, b)
             ELSE IF change_speed(tx[b].speed_khz) = "Err" THEN {[m2 EXCEPT !.fault = TRUE]}
             ELSE IF tx[b].csn \notin Pins
                    THEN {[m2 EXCEPT !.spi.freq = change_speed(tx[b].speed_khz),
                                     !.fault = TRUE]}
             ELSE {[m2 EXCEPT
                      !.spi = do_spi_dma_transfer_start(
                                [@ EXCEPT !.freq = change_speed(tx[b].speed_khz)],
                                tx[b].len - data.start_offset),
                      !.csns[tx[b].csn] = FALSE,
                      !.vdq = <<data>> \o @,
                      !.state = "Transferring",
                      !.started = TRUE]}

\* Spim::start_send: the states it can end in
start_send(m) ==
  LET m1 == flush_waiting(m)
  IN IF m1.state = "Transferring" \/ m1.vdq = <<>> THEN {m1}
     ELSE LET data == Head(m1.vdq)
              b == data.data
              m2 == [m1 EXCEPT !.vdq = Tail(@)]
          IN IF ~(tx[b].len > data.start_offset) THEN DropEntry(m2, b)
             ELSE IF change_speed(tx[b].speed_khz) = "Err" THEN {[m2 EXCEPT !.fault = TRUE]}
             ELSE IF tx[b].csn \notin Pins
                    THEN {[m2 EXCEPT !.spi.freq = change_speed(tx[b].speed_khz),
                                     !.fault = TRUE]}
             ELSE {[m2 EXCEPT
                      !.spi = do_spi_dma_transfer_start(
                                [@ EXCEPT !.freq = change_speed(tx[b].speed_khz)],
                                tx[b].len - data.start_offset),
                      !.csns[tx[b].csn] = FALSE,
                      !.vdq = <<data>> \o @,
                      !.state = "Transferring",
                      !.started = TRUE]}

\* end_send, lines 214-219: the transaction is complete and the next one is started
EndComplete(m, b) ==
  UNION {LET m1 == [m EXCEPT !.fb[b] = o.f, !.heap[b] = o.h, !.fault = o.fault,
                             !.hist.completed = @ \cup {b},
                             !.res = "complete"]
         IN IF o.fault THEN {m1} ELSE start_send(m1) :
           o \in ReleaseTerminalSeq(m.fb[b], m.heap[b], "complete")}

\* a short transfer whose entry goes back with the offset it had
EndShort_stale(m, wip, txul) ==
  [m EXCEPT !.vdq = <<wip>> \o @, !.res = "short"]

\* end_send, lines 220-230: stopped early, the entry goes back to the front
EndShort(m, wip, txul) ==
  [m EXCEPT !.vdq = <<[wip EXCEPT !.start_offset = @ + txul]>> \o @, !.res = "short"]

\* Spim::end_send: the states it can end in
end_send(m) ==
  LET m1 == flush_waiting(m)
      was == m1.state
      m2 == [m1 EXCEPT !.state = "Idle"]
  IN IF was = "Idle" \/ m2.vdq = <<>>
       THEN {[m2 EXCEPT !.spi = clear_events(@), !.res = "idle"]}
     ELSE LET wip == Head(m2.vdq)
              b == wip.data
              m3 == [m2 EXCEPT !.vdq = Tail(@), !.wip = b]
          IN IF DmaNotDone(m3.spi) THEN {[m3 EXCEPT !.fault = TRUE, !.res = "panic"]}
             ELSE LET tx_len == m3.spi.amount
                      m4 == [m3 EXCEPT !.spi = clear_events(@),
                                       !.csns[tx[b].csn] = TRUE,
                                       !.tx_len = tx_len]
                  IN IF tx_len + wip.start_offset = tx[b].len
                       THEN EndComplete(m4, b)
                       ELSE {EndShort(m4, wip, tx_len)}

\* Spim::send of the Exclusive Handle of block b: the states it can end in
send(m, b) ==
  IF ~CsnExists(tx[b].csn) THEN {[m EXCEPT !.res = "Err"]}
  ELSE LET m1 == [m EXCEPT !.fb[b] = AddRef(@)]
       IN IF IsFull(m1.vdq, VdqCap) THEN {[m1 EXCEPT !.res = "Err"]}
          ELSE LET m2 == [m1 EXCEPT !.vdq = Append(@, [data |-> b, start_offset |-> 0]),
                                    !.uex[b] = @ - 1,
                                    !.upend[b][INVALID] = @ + 1,
                                    !.hist.accepted = @ \cup {b},
                                    !.res = "Ok"]
               IN IF m2.state = "Idle" THEN start_send(m2) ELSE {m2}

(* ------------------------- the driver's actions ------------------------ *)
\* the machine record m becomes the next state
Apply(m) ==
  /\ fb' = m.fb /\ heap' = m.heap /\ uex' = m.uex /\ upend' = m.upend
  /\ vdq' = m.vdq /\ waiting' = m.waiting /\ state' = m.state /\ csns' = m.csns
  /\ spi' = m.spi /\ fault' = m.fault /\ hist' = m.hist

\* the chip selects, clocks and buffer lengths callers ask for: every pin and the first
\* index past them, the lowest supported clock and the one below it, every length from
\* the empty buffer on
Speeds == {MinSpeedKhz - 1, MinSpeedKhz}
Csns == 0..NumPins
Lens == 0..MaxLen

\* the transactions callers allocate: the well-formed ones, and those with one field
\* out of the ordinary (no such pin, unsupported clock, empty buffer)
Requests ==
  {r \in [csn : Csns, speed_khz : Speeds, len : Lens] :
     Cardinality({k \in {"csn", "speed_khz", "len"} :
                    \/ k = "csn" /\ r.csn \notin Pins
                    \/ k = "speed_khz" /\ r.speed_khz < MinSpeedKhz
                    \/ k = "len" /\ r.len = 0}) <= 1}

\* new_send_fut: a kernel task allocates a transaction and gets its Exclusive Handle
NewSendFut(csn, speed_khz, count) ==
  /\ ~fault /\ budget > 0
  /\ Allocated(new_exclusive("Kernel"),
               [csn |-> csn, speed_khz |-> speed_khz, len |-> count], 1)
  /\ budget' = budget - 1
  /\ call' = NoDrvCall
  /\ UNCHANGED <<thr, fault, vdq, waiting, state, csns, spi, hist>>

\* Spim::alloc_send refuses: the pending queue is full, or the heap is exhausted
AllocSendNone ==
  /\ ~fault
  /\ IsFull(waiting, WaitingCap) \/ budget = 0
  /\ call' = [NoDrvCall EXCEPT !.op = "alloc_send", !.res = "None"]
  /\ UNCHANGED <<fb, tx, uex, heap, upend, log, waiting, budget>>
  /\ UNCHANGED <<thr, fault, vdq, state, csns, spi, hist>>

\* Spim::alloc_send allocates the transaction, queues its kernel_waiter and returns
\* the Exclusive Handle
AllocSendSome(csn, speed_khz, count) ==
  /\ ~fault
  /\ ~IsFull(waiting, WaitingCap) /\ budget > 0
  /\ Allocated(AddRef(new_exclusive("Userspace")),
               [csn |-> csn, speed_khz |-> speed_khz, len |-> count], 1)
  /\ waiting' = Append(waiting, [fb |-> NextBox, awaiting |-> KERNEL_ACCESS])
  /\ budget' = budget - 1
  /\ call' = [NoDrvCall EXCEPT !.op = "alloc_send", !.b = NextBox, !.res = "Some"]
  /\ UNCHANGED <<thr, fault, vdq, state, csns, spi, hist>>

\* Spim::send with an Exclusive Handle its caller owns
Send(b) ==
  /\ ~fault
  /\ uex[b] > 0 /\ fb[b].refcnt < MaxRefs
  /\ \E m \in send(Machine, b) :
       /\ Apply(m)
       /\ call' = [NoDrvCall EXCEPT !.op = "send", !.b = b,
                                    !.res = IF m.fault THEN "panic" ELSE m.res,
                                    !.started = m.started]
  /\ UNCHANGED <<thr, log, tx, budget>>

\* Spim::start_send called from outside
StartSend ==
  /\ ~fault
  /\ \E m \in start_send(Machine) :
       /\ Apply(m)
       /\ call' = [NoDrvCall EXCEPT !.op = "start_send", !.started = m.started]
  /\ UNCHANGED <<thr, log, tx, budget>>

\* Spim::end_send, from the interrupt handler or from outside
EndSend ==
  /\ ~fault
  /\ \E m \in end_send(Machine) :
       /\ Apply(m)
       /\ call' = [op |-> "end_send", b |-> m.wip, res |-> m.res,
                   started |-> m.started, tx_len |-> m.tx_len]
  /\ UNCHANGED <<thr, log, tx, budget>>

\* Spim::flush_waiting called from outside
FlushWaiting ==
  /\ ~fault
  /\ Apply(flush_waiting(Machine))
  /\ call' = [NoDrvCall EXCEPT !.op = "flush_waiting"]
  /\ UNCHANGED <<thr, log, tx, budget>>

\* the DMA engine ends the transfer it was started on: all bytes and the END event, or
\* stopped after n bytes and the STOPPED event
HwFinish(n) ==
  /\ ~fault
  /\ spi.busy /\ n <= spi.maxcnt
  /\ spi' = [spi EXCEPT !.busy = FALSE, !.amount = n,
                        !.events_end = (n = spi.maxcnt),
                        !.events_stopped = (n < spi.maxcnt)]
  /\ call' = NoDrvCall
  /\ UNCHANGED <<fb, heap, uex, upend, thr, fault, log, tx, vdq, waiting, state, csns,
                 budget, hist>>

\* the owner of an Exclusive Handle releases it to the kernel or to userspace
OwnerRelease(b, tag) ==
  /\ ~fault
  /\ uex[b] > 0
  /\ fb' = [fb EXCEPT ![b] = release_to(@, tag)]
  /\ uex' = [uex EXCEPT ![b] = @ - 1]
  /\ upend' = [upend EXCEPT ![b][convert_to_monitor(tag)] = @ + 1]
  /\ call' = NoDrvCall
  /\ UNCHANGED <<heap, thr, fault, log, tx, vdq, waiting, state, csns, spi, budget, hist>>

\* the owner of an Exclusive Handle releases it to error or to complete
OwnerReleaseTerminal(b, kind) ==
  /\ ~fault
  /\ uex[b] > 0
  /\ \E o \in ReleaseTerminalSeq(fb[b], heap[b], kind) :
       /\ fb' = [fb EXCEPT ![b] = o.f]
       /\ heap' = [heap EXCEPT ![b] = o.h]
       /\ fault' = o.fault
  /\ uex' = [uex EXCEPT ![b] = @ - 1]
  /\ call' = NoDrvCall
  /\ UNCHANGED <<upend, thr, log, tx, vdq, waiting, state, csns, spi, budget, hist>>

\* the owner of an Exclusive Handle drops it
OwnerDrop(b) ==
  /\ ~fault
  /\ uex[b] > 0
  /\ \E o \in DropSeq(fb[b], heap[b]) :
       /\ fb' = [fb EXCEPT ![b] = o.f]
       /\ heap' = [heap EXCEPT ![b] = o.h]
       /\ fault' = o.fault
  /\ uex' = [uex EXCEPT ![b] = @ - 1]
  /\ call' = NoDrvCall
  /\ UNCHANGED <<upend, thr, log, tx, vdq, waiting, state, csns, spi, budget, hist>>

(* ------------------------- the specifications ------------------------- *)
\* the state after Spim::new: nothing allocated, both queues empty, Idle
Init ==
  /\ fb = <<>>
  /\ heap = <<>>
  /\ uex = <<>>
  /\ upend = <<>>
  /\ thr = [t \in Threads |-> NoCall]
  /\ fault = FALSE
  /\ log = <<>>
  /\ tx = <<>>
  /\ vdq = <<>>
  /\ waiting = <<>>
  /\ state = "Idle"
  /\ csns = [i \in Pins |-> TRUE]
  /\ spi = SpimReset
  /\ call = NoDrvCall
  /\ budget = MaxAllocs
  /\ hist = [accepted |-> {}, completed |-> {}]

\* a thread goes on with the call it is inside
ThreadStep(t) ==
  \/ TuLoad(t) \/ TuErr(t) \/ TuNone(t) \/ TuPayload(t) \/ TuInc(t)
  \/ RelFlag(t)
  \/ RteFree(t) \/ RteNull(t) \/ RteFlag(t)
  \/ DropSub(t) \/ DropStatus(t) \/ DropFree(t) \/ DropNull(t) \/ DropFlag(t)
  \/ DropLast(t)

\* an owner of a handle starts a call with it
ThreadCall(t) ==
  \/ \E b \in Blocks, aw \in Tags : TuCas(t, b, aw)
  \/ \E b \in Blocks, tag \in AccessTags : RelStore(t, b, tag)
  \/ \E b \in Blocks, kind \in {"error", "complete"} : RteStore(t, b, kind)
  \/ \E b \in Blocks : DropCall(t, b)

\* the future box alone: one control block, its handles used by concurrent threads
NextFB ==
  \/ \E src \in {"Kernel", "Userspace"} : NewExclusive(src)
  \/ \E b \in Blocks : CreateMonitor(b)
  \/ \E b \in Blocks : KernelWaiter(b)
  \/ \E b \in Blocks, aw \in Tags : DropPend(b, aw)
  \/ \E t \in Threads : ThreadCall(t)
  \/ \E t \in Threads : ThreadStep(t)

SpecFB == Init /\ [][NextFB]_vars

\* the driver: its handlers, the DMA engine, and the owners of the handles. An owner's
\* call is one step here: the driver reads a control block only in try_upgrade, whose
\* compare_exchange fails for as long as the owner's handle holds ex_taken.
Next ==
  \/ \E r \in Requests : NewSendFut(r.csn, r.speed_khz, r.len)
  \/ AllocSendNone
  \/ \E r \in Requests : AllocSendSome(r.csn, r.speed_khz, r.len)
  \/ \E b \in Blocks : Send(b)
  \/ StartSend
  \/ EndSend
  \/ FlushWaiting
  \/ \E n \in Lens : HwFinish(n)
  \/ \E b \in Blocks, tag \in AccessTags : OwnerRelease(b, tag)
  \/ \E b \in Blocks, kind \in {"error", "complete"} : OwnerReleaseTerminal(b, kind)
  \/ \E b \in Blocks : OwnerDrop(b)

Spec == Init /\ [][Next]_vars

\* the transaction every queued entry of the loaded driver carries
LoadedTx == [csn |-> 0, speed_khz |-> MinSpeedKhz, len |-> 1]

\* a control block after new_send_fut and an accepted send: the in-flight queue holds
\* its Exclusive Handle, the caller its monitor
SentBox == [AddRef(new_exclusive("Kernel")) EXCEPT !.ex_taken = TRUE]

\* a control block after alloc_send and the owner's release_to_kernel: the pending
\* queue holds its kernel_waiter, the owner the handle release_to_kernel returned
ReleasedBox == release_to(AddRef(new_exclusive("Userspace")), KERNEL_ACCESS)

\* the driver under load: VdqCap transactions were sent, the first of them is being
\* transferred, and WaitingCap transactions were allocated through alloc_send and
\* released to the kernel since; no handler has run after the releases, and the heap
\* has room for LoadedAllocs more control blocks
InitLoaded ==
  LET nv == VdqCap
      nw == WaitingCap
  IN /\ fb = [b \in 1..(nv + nw) |-> IF b <= nv THEN SentBox ELSE ReleasedBox]
     /\ heap = [b \in 1..(nv + nw) |-> NoHeap]
     /\ uex = [b \in 1..(nv + nw) |-> 0]
     /\ upend = [b \in 1..(nv + nw) |-> [a \in Tags |-> IF a = INVALID THEN 1 ELSE 0]]
     /\ thr = [t \in Threads |-> NoCall]
     /\ fault = FALSE
     /\ log = [b \in 1..(nv + nw) |-> NoLog]
     /\ tx = [b \in 1..(nv + nw) |-> LoadedTx]
     /\ vdq = [i \in 1..nv |-> [data |-> i, start_offset |-> 0]]
     /\ waiting = [i \in 1..nw |-> [fb |-> nv + i, awaiting |-> KERNEL_ACCESS]]
     /\ state = "Transferring"
     /\ csns = [i \in Pins |-> i # LoadedTx.csn]
     /\ spi = do_spi_dma_transfer_start(
                [SpimReset EXCEPT !.freq = change_speed(LoadedTx.speed_khz)], LoadedTx.len)
     /\ call = NoDrvCall
     /\ budget = LoadedAllocs
     /\ hist = [accepted |-> 1..nv, completed |-> {}]

\* the driver started with both queues full
SpecLoaded == InitLoaded /\ [][Next]_vars

(* ---------------------- the future box: properties -------------------- *)
\* the Exclusive Handles of block b in existence: those an owner or the in-flight queue
\* holds, and those a call is working with
ExHandles(b) == uex[b] + Cardinality(ExInCall(b))
                + Cardinality({i \in 1..Len(vdq) : vdq[i].data = b})

\* the threads inside try_upgrade on block b that took ex_taken
TuPcs == {"tu_load", "tu_err", "tu_none", "tu_payload", "tu_inc"}
InTu(b) == {t \in Threads : thr[t].b = b /\ thr[t].pc \in TuPcs}

\* C1: in every reachable state a control block has at most one Exclusive Handle,
\* however the try_upgrade calls of its Pending Handles interleave with each other
\* and with the releases and the drops.
C1_AtMostOneExclusive == \A b \in Blocks : ExHandles(b) <= 1

\* C1 witness: try_upgrade has handed out the Exclusive Handle while another Pending
\* Handle awaiting the very status of the block is outstanding
C1_Witness ==
  \E b \in Blocks : /\ uex[b] = 1 /\ log[b].ups >= 1 /\ fb[b].ex_taken
                    /\ upend[b][fb[b].status] > 0

\* C2: try_upgrade on a handle awaiting X builds an Exclusive Handle only when the
\* status it loaded equals X; when it loaded another status Y that is not terminal it
\* takes the not-ready arm, which clears ex_taken and returns no handle.
C2_Arm(t) ==
  LET b == thr[t].b
      x == thr[t].aw
  IN /\ (thr[t].pc = "tu_load" /\ thr'[t].pc = "tu_payload") => fb[b].status = x
     /\ (thr[t].pc = "tu_load" /\ thr'[t].pc # "tu_load"
           /\ fb[b].status # x /\ fb[b].status \notin {ERROR, COMPLETED})
          => thr'[t].pc = "tu_none"
     /\ (thr[t].pc = "tu_none" /\ thr'[t].pc # "tu_none")
          => ~fb'[b].ex_taken /\ uex' = uex
     /\ (thr[t].pc \in TuPcs /\ uex'[b] > uex[b] /\ thr'[t].pc = "idle")
          => thr[t].rd = x
C2_UpgradeOnlyOnAwaited == [][\A t \in Threads : C2_Arm(t)]_vars

\* C2 witness: a call that awaits X is in the not-ready arm, having loaded an access
\* tag Y other than X
C2_Witness ==
  \E t \in Threads : /\ thr[t].pc = "tu_none" /\ thr[t].rd # thr[t].aw
                     /\ thr[t].rd \in AccessTags

\* C3, as stated: once a release has cleared ex_taken, exactly one of the try_upgrade
\* calls that follow before the next release succeeds; so when such a call has taken
\* ex_taken and returned, one handle has been handed out.
C3_ExactlyOneUpgrade ==
  \A b \in Blocks : (log[b].rel # "none" /\ log[b].tried) => log[b].ups = 1

\* C3, amended: after any release ex_taken is false until a try_upgrade takes it, and
\* of the try_upgrade calls that follow before the next release at most one succeeds,
\* none at all after release_to_error and release_to_complete.
C3_AtMostOneUpgrade ==
  \A b \in Blocks :
    /\ log[b].ups <= 1
    /\ log[b].rel = "terminal" => log[b].ups = 0
    /\ (log[b].rel # "none" /\ log[b].ups = 0 /\ InTu(b) = {}) => ~fb[b].ex_taken

\* C3 witness: a release to an access tag was followed by one successful try_upgrade
C3_Witness == \E b \in Blocks : log[b].rel = "access" /\ log[b].ups = 1

(* ------------------------ the driver: properties ---------------------- *)
\* the transaction of block b is one start_send can put on the bus: a pin that exists,
\* a clock the peripheral supports
OnBus(b) == tx[b].csn \in Pins /\ tx[b].speed_khz >= MinSpeedKhz

\* C4, as stated: while the program runs, every transaction send accepted is either
\* still in the in-flight queue, its start_offset within the buffer, or was released as
\* complete by end_send with all its bytes sent; no handler removes it otherwise.
C4_NoTransactionLost ==
  ~fault =>
    \A b \in hist.accepted :
      \/ \E i \in 1..Len(vdq) : vdq[i].data = b /\ vdq[i].start_offset <= tx[b].len
      \/ b \in hist.completed

\* C5, as stated: when end_send has found all bytes of a transaction transmitted and
\* returned, is_complete on the transaction's monitor returns Ok(true).
C5_CompletedPollsDone ==
  (~fault /\ call.op = "end_send" /\ call.res = "complete")
    => is_complete(fb[call.b]) = "Ok(true)"

\* C6: a send whose transaction names a chip select at or past the number of pins
\* returns Err with the handle still the caller's, and leaves both queues, the state,
\* the pins, the peripheral and every control block as they were.
C6_Step(b) ==
  (call'.op = "send" /\ call'.b = b /\ tx[b].csn >= NumPins)
    => /\ call'.res = "Err" /\ ~call'.started
       /\ uex'[b] = uex[b] /\ uex[b] > 0
       /\ UNCHANGED <<fb, heap, upend, vdq, waiting, state, csns, spi, fault, hist>>
C6_BadCsnChangesNothing == [][\A b \in Blocks : C6_Step(b)]_vars

\* C6 witness: send has returned the handle of a transaction whose chip select is the
\* first index past the pins
C6_Witness ==
  /\ call.op = "send" /\ call.res = "Err"
  /\ tx[call.b].csn = NumPins /\ uex[call.b] = 1

\* C7: a send made while the in-flight queue holds VdqCap entries returns Err with the
\* handle still the caller's; the in-flight queue and the state are as before.
C7_Step(b) ==
  (call'.op = "send" /\ call'.b = b /\ Len(vdq) = VdqCap)
    => /\ call'.res = "Err"
       /\ uex'[b] = uex[b] /\ uex[b] > 0
       /\ UNCHANGED <<vdq, state>>
C7_FullQueueRejects == [][\A b \in Blocks : C7_Step(b)]_vars

\* C7 witness: send has refused a transaction on a pin that exists, the in-flight queue
\* being full
C7_Witness ==
  /\ call.op = "send" /\ call.res = "Err"
  /\ CsnExists(tx[call.b].csn) /\ Len(vdq) = VdqCap /\ uex[call.b] = 1

\* C8: the pending queue never holds more than WaitingCap entries, and an alloc_send
\* made while it holds WaitingCap returns None, allocates no control block and no
\* buffer, and leaves the pending queue as it was.
C8_Step ==
  (call'.op = "alloc_send" /\ Len(waiting) = WaitingCap)
    => /\ call'.res = "None"
       /\ UNCHANGED <<fb, tx, heap, uex, upend, budget, waiting>>
C8_FullPendingRefuses == [](Len(waiting) <= WaitingCap) /\ [][C8_Step]_vars

\* C8 witness: alloc_send has refused while the heap still had room, the pending queue
\* being full
C8_Witness ==
  /\ call.op = "alloc_send" /\ call.res = "None"
  /\ Len(waiting) = WaitingCap /\ budget > 0

\* the in-flight queue entry of block b that no byte was sent of
Fresh(b) == [data |-> b, start_offset |-> 0]

\* a send of block b made in state Idle with both queues empty puts its entry at the
\* front of the in-flight queue, makes its pin active, starts the DMA transfer and
\* leaves the state Transferring
C9_SendStep(b) ==
  (call'.op = "send" /\ call'.b = b /\ state = "Idle" /\ vdq = <<>> /\ waiting = <<>>)
    => /\ state' = "Transferring" /\ ~csns'[tx[b].csn]
       /\ vdq' = <<Fresh(b)>> /\ call'.started /\ spi'.busy
       /\ ~fault'

\* an end_send that finds this entry alone in the queues and is told by the DMA engine
\* that all L bytes were sent makes the pin inactive, removes the entry and leaves the
\* state Idle
C9_EndStep(b) ==
  (call'.op = "end_send" /\ call'.b = b /\ state = "Transferring"
     /\ vdq = <<Fresh(b)>> /\ waiting = <<>> /\ call'.tx_len = tx[b].len)
    => /\ csns'[tx[b].csn]
       /\ vdq' = <<>> /\ state' = "Idle"
       /\ b \in hist'.completed

\* C9, as stated: from Idle with empty queues, a send of one transaction with a
\* non-empty buffer on a chip select that exists starts its transfer (Transferring,
\* pin active, entry at the front); the end_send that is told all its bytes were sent
\* makes the pin inactive, removes the entry and returns to Idle with the in-flight
\* queue empty.
C9_OneTransaction ==
  [][\A b \in Blocks :
       (tx[b].len > 0 /\ tx[b].csn \in Pins) => (C9_SendStep(b) /\ C9_EndStep(b))]_vars

\* C9, amended: the same, for a transaction whose clock the peripheral supports
\* (speed_khz at least MinSpeedKhz), no other transaction being submitted meanwhile.
C9_OneSupportedTransaction ==
  [][\A b \in Blocks :
       (tx[b].len > 0 /\ OnBus(b)) => (C9_SendStep(b) /\ C9_EndStep(b))]_vars

\* C9 witness: the only transaction ever allocated was sent, transferred in full and
\* ended by end_send, which left the driver Idle with an empty in-flight queue
C9_Witness ==
  /\ Len(fb) = 1 /\ hist.accepted = {1} /\ tx[1].len = MaxLen
  /\ call.op = "end_send" /\ call.b = 1 /\ call.tx_len = tx[1].len
  /\ state = "Idle" /\ vdq = <<>> /\ csns[tx[1].csn]

\* C10, as stated, for two transactions start_send can put on the bus (non-empty
\* buffers, pins that exist, supported clocks): the second send, made while the first
\* is being transferred, queues its entry behind the first and starts no DMA transfer;
\* the end_send that finds the first fully sent starts the second before it returns:
\* its pin is active, the DMA start was issued, and the state is Transferring again.
C10_SecondQueued(a, b) ==
  (call'.op = "send" /\ call'.b = b /\ state = "Transferring"
     /\ vdq = <<Fresh(a)>> /\ waiting = <<>>)
    => /\ vdq' = <<Fresh(a), Fresh(b)>>
       /\ ~call'.started /\ spi' = spi /\ state' = "Transferring"
C10_ChainedStart(a, b) ==
  (call'.op = "end_send" /\ call'.b = a /\ call'.res = "complete"
     /\ state = "Transferring" /\ vdq = <<Fresh(a), Fresh(b)>> /\ waiting = <<>>)
    => /\ state' = "Transferring" /\ vdq' = <<Fresh(b)>>
       /\ ~csns'[tx[b].csn] /\ call'.started /\ spi'.busy
C11_Step ==
  /\ (call'.op = "end_send" /\ state = "Transferring" /\ vdq # <<>> /\ ~DmaNotDone(spi)
        /\ spi.amount + Head(vdq).start_offset < tx[Head(vdq).data].len)
       => /\ vdq' # <<>>
          /\ Head(vdq') = [data |-> Head(vdq).data,
                           start_offset |-> Head(vdq).start_offset + spi.amount]
          /\ Len(vdq') >= Len(vdq)
          /\ SubSeq(vdq', 2, Len(vdq)) = Tail(vdq)
          /\ state' = "Idle"
          /\ ~call'.started /\ ~spi'.busy /\ spi'.maxcnt = spi.maxcnt
          /\ ~fault'
  /\ (call'.op = "end_send" /\ state = "Idle") => (~call'.started /\ spi'.busy = spi.busy)
C11_ShortTransferPauses == [][C11_Step]_vars

\* C11 witness: end_send has put back an entry of which the DMA engine sent a part
C11_Witness ==
  /\ call.op = "end_send" /\ call.res = "short" /\ call.tx_len > 0
  /\ state = "Idle" /\ vdq # <<>> /\ Head(vdq).data = call.b
  /\ Head(vdq).start_offset = call.tx_len /\ ~spi.busy

\* C12, as stated: a transaction whose chip select is not a pin or whose clock is below
\* MinSpeedKhz is refused before it can reach start_send: send never accepts one, the
\* in-flight queue never holds one (flush_waiting promotes none), so start_send never
\* halts on one.
C12_InvalidRejected ==
  /\ \A b \in hist.accepted : OnBus(b)
  /\ \A i \in 1..Len(vdq) : OnBus(vdq[i].data)

(* ------------------ the future box: counts and lifetime ---------------- *)
\* the Pending Handles of block b in existence: those owners hold and those in the
\* driver's pending queue
PendHandles(b) ==
  upend[b][KERNEL_ACCESS] + upend[b][USERSPACE_ACCESS] + upend[b][COMPLETED]
    + upend[b][ERROR] + upend[b][INVALID]
    + Cardinality({i \in 1..Len(waiting) : waiting[i].fb = b})

\* no thread is inside a call on a handle
Quiet == \A t \in Threads : Idle(t)

\* C13, as stated: whenever no handle call is running, the refcnt of a control block
\* that was not freed equals the number of its Exclusive and Pending Handles.
C13_RefsCountHandles ==
  \A b \in Blocks :
    (Quiet /\ ~fault /\ fb[b].alloc = "live")
      => fb[b].refcnt = ExHandles(b) + PendHandles(b)

\* the handles of either kind of block b in existence
Handles(b) == ExHandles(b) + PendHandles(b)

\* C14, as stated: a control block is never freed while a handle of it exists, and
\* when its last handle is gone, of whichever kind, and no call is running, it was freed.
C14_FreedWithLastHandle ==
  \A b \in Blocks :
    /\ fb[b].alloc = "freed" => Handles(b) = 0
    /\ (Quiet /\ ~fault /\ Handles(b) = 0) => fb[b].alloc = "freed"

\* an Exclusive Handle of block b is held between calls, by an owner or by the
\* in-flight queue
ExHeld(b) == uex[b] > 0 \/ \E i \in 1..Len(vdq) : vdq[i].data = b

\* C15, as stated: whenever no call is running on a handle (so no release is in
\* progress), the payload pointer of a control block is non-null exactly when an
\* Exclusive Handle of the block exists; so too after release_to_kernel or
\* release_to_userspace and before the next upgrade.
C15_PayloadIffExclusive ==
  \A b \in Blocks : (Quiet /\ ~fault) => (fb[b].payload <=> ExHeld(b))

\* C15, amended: the payload pointer is non-null while an Exclusive Handle is held, and
\* it stays non-null after release_to_kernel or release_to_userspace, when no Exclusive
\* Handle exists, for the next upgrade to load; whenever no call is running it is
\* non-null exactly when the payload was not freed, which only release_to_error,
\* release_to_complete and the drop of an Exclusive Handle do.
C15_PayloadUntilFreed ==
  \A b \in Blocks :
    /\ ExHeld(b) => fb[b].payload
    /\ (log[b].rel = "access" /\ log[b].ups = 0) => fb[b].payload
    /\ (Quiet /\ ~fault) => (fb[b].payload <=> heap[b].pfrees = 0)

\* C15 witness: release_to_kernel or release_to_userspace has finished, no upgrade has
\* followed, no Exclusive Handle exists, and the payload pointer is non-null
C15_Witness ==
  \E b \in Blocks : /\ Quiet /\ log[b].rel = "access" /\ log[b].ups = 0
                    /\ ~ExHeld(b) /\ fb[b].payload

\* thread t is inside the Drop of an Exclusive Handle that no release_to_error or
\* release_to_complete came before
PlainDrop(t) ==
  /\ thr[t].pc \in {"drop_sub", "drop_status", "drop_free", "drop_null", "drop_flag", "drop_last"}
  /\ log[thr[t].b].rel # "terminal"

\* the step that ends such a Drop
C16_Step ==
  \A t \in Threads :
    (PlainDrop(t) /\ thr'[t].pc = "idle") =>
      LET b == thr[t].b
      IN /\ ~fault'
         /\ fb'[b].status = ERROR
         /\ ~fb'[b].payload /\ heap'[b].pfrees = 1
         /\ ~fb'[b].ex_taken
         /\ fb'[b].refcnt = U8Sub(thr[t].rd)
         /\ (fb'[b].alloc = "freed") <=> DropFb(thr[t].rd)
         /\ (fb'[b].alloc = "freed") => heap'[b].fbfrees = 1

\* C16: dropping an Exclusive Handle without an explicit release ends with the block
\* errored, the payload freed (once) and its pointer nulled, ex_taken clear, refcnt one
\* lower, and the control block freed exactly when the handle was the last reference;
\* the drop does not stop the program
C16_PlainDrop == [][C16_Step]_vars

\* what a step does with a block whose status is ERROR
C17_Step ==
  \A b \in Blocks :
    fb[b].status = ERROR =>
      /\ fb'[b].status = ERROR
      /\ uex'[b] <= uex[b]
      /\ \A t \in Threads :
           thr[t].b = b =>
             /\ thr[t].pc \notin {"tu_none", "tu_payload", "tu_inc"}
             /\ thr[t].pc = "tu_load" => thr'[t].pc \in {"tu_load", "tu_err"}
             /\ (thr[t].pc = "tu_err" /\ thr'[t].pc = "idle") => ~fb'[b].ex_taken

\* C17: a status of ERROR never changes again; from then on no try_upgrade on the block
\* builds an Exclusive Handle, and every try_upgrade that takes ex_taken goes through
\* the ERROR arm and returns with ex_taken false
C17_ErrorIsPermanent == [][C17_Step]_vars

\* C17 witness: after a terminal release made the block ERROR, a try_upgrade took
\* ex_taken, returned without a handle, and the block is still ERROR with ex_taken clear
C17_Witness ==
  \E b \in Blocks : /\ fb[b].status = ERROR /\ fb[b].alloc = "live"
                    /\ log[b].rel = "terminal" /\ log[b].tried
                    /\ ~fb[b].ex_taken /\ uex[b] = 0 /\ Quiet

\* a try_upgrade of thread t through a Pending Handle that a release_to_kernel or
\* release_to_userspace returned (it awaits aw) has taken ex_taken of a block which the
\* other domain upgraded and then released back to the releasing domain
BackAtHome(t, aw) ==
  /\ thr[t].pc = "tu_load" /\ thr[t].aw = aw
  /\ log[thr[t].b].trip = "back"
  /\ fb[thr[t].b].status = log[thr[t].b].home

\* C18 as claimed: that try_upgrade yields an Exclusive Handle
C18_Regains ==
  [][\A t \in Threads, aw \in {convert_to_monitor(tag) : tag \in AccessTags} :
       (BackAtHome(t, aw) /\ thr'[t].pc # "tu_load") => thr'[t].pc = "tu_payload"]_vars

\* C18: the Pending Handle release_to_kernel / release_to_userspace returns awaits
\* INVALID, a status that is never stored: a try_upgrade through it never builds an
\* Exclusive Handle, and after the other domain has upgraded and released the block back
\* it takes ex_taken, finds another status and returns not ready
C18_MonitorNeverUpgrades ==
  /\ [](\A b \in Blocks : fb[b].status # INVALID)
  /\ [](\A t \in Threads : thr[t].pc \in {"tu_payload", "tu_inc"} => thr[t].aw # INVALID)
  /\ [][\A t \in Threads, tag \in AccessTags :
          (BackAtHome(t, convert_to_monitor(tag)) /\ thr'[t].pc # "tu_load")
            => thr'[t].pc = "tu_none"]_vars

\* C18 witness: the returned handle's try_upgrade is in the not-ready arm after the
\* block made the round trip
C18_Witness ==
  \E t \in Threads : /\ thr[t].pc = "tu_none" /\ thr[t].aw = INVALID
                     /\ log[thr[t].b].trip = "back"
                     /\ thr[t].rd = log[thr[t].b].home
                     /\ upend[thr[t].b][INVALID] > 0

\* what try_upgrade answers for the pending entry e in the current state
Polled(e) == try_upgrade(fb[e.fb], e.awaiting).res

\* the in-flight entries a flush builds from the pending entries es, in their order
RECURSIVE Promoted(_)
Promoted(es) ==
  IF es = <<>> THEN <<>>
  ELSE IF Polled(Head(es)) = "Some"
         THEN <<[data |-> Head(es).fb, start_offset |-> 0]>> \o Promoted(Tail(es))
         ELSE Promoted(Tail(es))

\* a call of flush_waiting took the first k pending entries
C19_Step ==
  call'.op = "flush_waiting" =>
    /\ Len(waiting') <= Len(waiting)
    /\ LET k == Len(waiting) - Len(waiting')
       IN /\ waiting' = SubSeq(waiting, k + 1, Len(waiting))
          /\ \A i \in 1..k : Polled(waiting[i]) # "None"
          /\ vdq' = vdq \o Promoted(SubSeq(waiting, 1, k))
          /\ (k < Len(waiting) /\ Polled(waiting[k + 1]) # "None") => Len(vdq') = VdqCap

\* C19: flush_waiting takes pending entries from the front only and appends the ready
\* ones to the in-flight queue in pending order; an entry that is not ready stays at
\* the front and ends the flush, so that nothing behind it is promoted, and the entries
\* that stay pending keep their order
C19_FlushIsFifo == [][C19_Step]_vars

\* C19 witness: a flush has stopped at a front entry that is not ready while the entry
\* behind it is ready
C19_Witness ==
  /\ call.op = "flush_waiting" /\ Len(waiting) >= 2 /\ Len(vdq) < VdqCap
  /\ Polled(waiting[1]) = "None" /\ Polled(waiting[2]) = "Some"


\* the blocks of a queue of pending or in-flight entries
PendingBlocks(q) == {q[i].fb : i \in 1..Len(q)}
InFlightBlocks(q) == {q[i].data : i \in 1..Len(q)}

\* a call of flush_waiting found the front pending entry errored
C20_Step ==
  (/\ call'.op = "flush_waiting"
   /\ waiting # <<>> /\ Len(vdq) < VdqCap
   /\ Polled(Head(waiting)) = "Err") =>
    /\ Head(waiting).fb \notin PendingBlocks(waiting') \cup InFlightBlocks(vdq')
    /\ \A i \in 2..Len(waiting) :
         Polled(waiting[i]) # "Err" =>
           waiting[i].fb \in PendingBlocks(waiting') \cup InFlightBlocks(vdq')
    /\ Len(waiting) >= 2 =>
         CASE Polled(waiting[2]) = "Some" -> waiting[2].fb \in InFlightBlocks(vdq')
           [] Polled(waiting[2]) = "None" -> waiting' = Tail(waiting)
           [] OTHER -> waiting[2].fb \notin PendingBlocks(waiting')
    /\ \E n \in 0..Len(waiting) : waiting' = SubSeq(waiting, n + 1, Len(waiting))
    /\ SubSeq(vdq', 1, Len(vdq)) = vdq
    /\ state' = state /\ spi' = spi /\ csns' = csns /\ hist' = hist
    /\ ~fault'

\* C20: a flush that finds the front pending entry errored removes that entry and goes
\* on with the next one; the entries behind it stay pending in their order or are
\* promoted, every in-flight entry stays where it was with its start_offset, and the
\* driver state, the peripheral and the chip selects do not change
C20_ErroredEntryDropped == [][C20_Step]_vars

\* C20 witness: a flush has removed an errored front entry and promoted the entry that
\* stood behind it
C20_Witness ==
  /\ call.op = "flush_waiting" /\ waiting = <<>> /\ vdq # <<>>
  /\ \E b \in Blocks :
       /\ b < vdq[Len(vdq)].data
       /\ fb[b].alloc = "live" /\ fb[b].status = ERROR /\ fb[b].refcnt > 0
       /\ b \notin InFlightBlocks(vdq) /\ b \notin hist.accepted
  /\ fb[vdq[Len(vdq)].data].status = KERNEL_ACCESS
  /\ vdq[Len(vdq)].data \notin hist.accepted

\* the driver is Idle and the front in-flight entry has nothing left to send
FrontCovered ==
  /\ state = "Idle" /\ vdq # <<>>
  /\ Head(vdq).start_offset >= tx[Head(vdq).data].len

\* a step taken from such a state leaves the entry, its handle, the pins and the DMA
\* engine alone
C21_Step ==
  FrontCovered =>
    LET b == Head(vdq).data
    IN /\ vdq' # <<>> /\ Head(vdq') = Head(vdq)
       /\ fb'[b] = fb[b] /\ heap'[b] = heap[b]
       /\ csns' = csns
       /\ spi'.busy = spi.busy /\ spi'.maxcnt = spi.maxcnt
       /\ state' = "Idle"

\* C21: start_send in state Idle with a front in-flight entry whose start_offset covers
\* its buffer does nothing: the entry stays at the front, its handle is neither released
\* nor dropped, no pin changes, no DMA transfer is started, the state stays Idle
C21_CoveredEntryKept == [][C21_Step]_vars

\* end_send is called in state Transferring before the DMA engine raised END or STOPPED
C22_Step ==
  (/\ call'.op = "end_send"
   /\ state = "Transferring" /\ vdq # <<>>
   /\ DmaNotDone(spi)) =>
    /\ ~fault'
    /\ vdq' # <<>> /\ Head(vdq') = Head(vdq)

\* C22: a poll that finds neither event flag set is not fatal: end_send in state
\* Transferring before the hardware raised a flag does not halt the driver and leaves
\* the in-flight entry at the front of the in-flight queue with its start_offset
C22_NotDoneIsNotFatal == [][C22_Step]_vars

\* the DMA engine is programmed for what is left of in-flight entry e
StartedOn(e) ==
  /\ e.start_offset < tx[e.data].len
  /\ spi.maxcnt = tx[e.data].len - e.start_offset

\* Transferring: the front in-flight entry is the one the DMA engine was started on
C23_Front == state = "Transferring" => (vdq # <<>> /\ StartedOn(Head(vdq)))

\* the state changes in start_send and end_send only (send calls start_send); a DMA
\* start is issued with the state Idle, or by the end_send that has just ended the
\* transfer before, and never while a transfer is outstanding; between the start and
\* its end_send the front entry stays
C23_Step ==
  /\ state' # state => call'.op \in {"send", "start_send", "end_send"}
  /\ call'.started =>
       /\ ~spi.busy
       /\ state = "Idle" \/ (call'.op = "end_send" /\ ~DmaNotDone(spi))
       /\ state' = "Transferring" /\ spi'.busy
  /\ (spi'.busy /\ ~spi.busy) => call'.started
  /\ (state = "Transferring" /\ call'.op # "end_send") =>
       (state' = "Transferring" /\ Head(vdq') = Head(vdq) /\ spi'.maxcnt = spi.maxcnt)

\* C23: in every reachable state Transferring implies that the in-flight queue is not
\* empty and its front entry is the one whose transfer was started last and has not
\* been ended; the state changes only inside start_send and end_send, and no DMA start
\* is issued while the state is Transferring, so one transfer is outstanding at most
C23_OneTransferAtATime == []C23_Front /\ [][C23_Step]_vars

\* C23 witness: start_send was called while a transfer is outstanding and another
\* in-flight entry waits behind the front one; the state is still Transferring
C23_Witness ==
  /\ call.op = "start_send" /\ ~call.started
  /\ state = "Transferring" /\ spi.busy /\ Len(vdq) >= 2
  /\ StartedOn(Head(vdq)) /\ tx[vdq[2].data].len > 0

\* C24: over the life of a control block its payload is freed once at most, whatever
\* sequence of releases, upgrades and drops its handles go through, and it is not freed
\* while an owner holds an Exclusive Handle of the block
C24_PayloadFreedOnce ==
  \A b \in Blocks : /\ heap[b].pfrees <= 1
                    /\ uex[b] > 0 => heap[b].pfrees = 0

\* the chip-select pins that are active (driven low)
ActivePins == {i \in Pins : ~csns[i]}

\* the pins are active as the state says
C25_Pins ==
  /\ Cardinality(ActivePins) <= 1
  /\ state = "Transferring" => (vdq # <<>> /\ ActivePins = {tx[Head(vdq).data].csn})
  /\ state = "Idle" => ActivePins = {}

\* an end_send that got byte counts from the DMA engine leaves the pin of its entry
\* inactive
C25_Step ==
  (call'.op = "end_send" /\ call'.res \in {"complete", "short"}) =>
    /\ state = "Transferring" /\ vdq # <<>>
    /\ csns'[tx[Head(vdq).data].csn] \/ call'.started

\* C25: in every reachable state at most one chip-select pin is active, and a pin is
\* active exactly when the state is Transferring, in which case it is the pin of the
\* front in-flight entry; every end_send that receives byte counts deactivates that
\* pin, after a full and after a short transfer alike
C25_OnePinActive == []C25_Pins /\ [][C25_Step]_vars
=============================================================================
